---- MODULE Spec2Model ----
(***************************************************************************)
(* A model of workflow.py: the batch script that finds the project        *)
(* directories under HomeDirectory, makes or opens a PhotoScan project     *)
(* for each of them and runs the list of workflow jobs on its chunk.       *)
(*                                                                         *)
(* The PhotoScan host is opaque: every host call (addPhotos, open, save,   *)
(* matchPhotos, buildPoints, ...) either succeeds, with the effect the     *)
(* host documents for it, or returns failure and changes nothing.  Which   *)
(* of the two happens is an input of the action that makes the call.       *)
(***************************************************************************)
EXTENDS Integers, Sequences, FiniteSets, TLC

\* Bounds of the model.
NumDirs == 2        \* project directories under HomeDirectory
NumCameras == 3     \* photos in every photos directory (one camera each)
MaxRuns == 2        \* times the script is started
MaxFaults == 1      \* host failures and kills injected in one behaviour
MaxExisting == 1    \* directories that hold a project file at the first start
MaxLogCalls == 6    \* calls of open_log, log and close_log in one behaviour

Dirs == 1..NumDirs
None == "None"
Vec == "Vector"

VARIABLES
    pc,            \* position of the script: start, building, finished, aborted, killed
    run,           \* number of the current start of the script
    log_file,      \* the global log_file: None, open or closed
    project_dirs,  \* the list find_project_folders returned
    cur,           \* position of the list comprehension in project_dirs
    bpc,           \* position inside build: enter or loop
    doc,           \* the PhotoScan.Document build holds in memory
    jobIdx,        \* position of the for loop of build in jobs
    ret,           \* build's ret
    fs,            \* the file system: per directory, its files and the saved project
    faults,        \* host failures and kills so far
    \* history of the current run, per directory
    ran,           \* the jobs whose run action was invoked: [job, host, ok, saved]
    saveCalls,     \* number of doc.save() calls made by the loop of build
    result,        \* what build returned: None, True or False
    how,           \* what make_or_open_project did: None, made or opened, whether
                   \* <dirname>.psz existed then, and whether a host call of it failed
    errors,        \* the ERROR lines logged
    dumped,        \* the directories whose document dump(doc) has written
    \* history of the run before
    prevRan, prevResult, fs0,
    \* the log, for the calls of open_log, log and close_log taken on their own
    out,           \* number of lines print has written to the process output
    written,       \* number of lines in workflow.log
    scope,         \* whether open_log was called and close_log not since
    calls,         \* number of calls so far
    lastCall       \* the last call: its name, whether a scope was open before it,
                   \* whether it wrote to the file, whether it raised

vars == <<pc, run, log_file, project_dirs, cur, bpc, doc, jobIdx, ret, fs, faults,
          ran, saveCalls, result, how, errors, dumped, prevRan, prevResult, fs0,
          out, written, scope, calls, lastCall>>

logvars == <<out, written, scope, calls, lastCall>>

hist == <<ran, saveCalls, result, how, errors, dumped, prevRan, prevResult, fs0>>

-----------------------------------------------------------------------------
\* Chunks

Camera(centre) == [center |-> centre]

RECURSIVE CameraLists(_)
CameraLists(n) ==
    IF n = 0 THEN {<<>>}
    ELSE {Append(s, Camera(c)) : s \in CameraLists(n - 1), c \in {None, Vec}}

\* doc.addChunk() followed by chunk.addPhotos(photos): one camera per photo,
\* none of them placed, no derived data.
NewChunk(nphotos) ==
    [cameras |-> [i \in 1..nphotos |-> Camera(None)],
     matched |-> FALSE, point_cloud |-> FALSE, dense_cloud |-> FALSE,
     model |-> FALSE, texture |-> FALSE, enabled |-> TRUE, label |-> 0]

\* No chunk: the value of doc.chunk of a document without chunks, and of the
\* project file of a directory that has none.
NoChunk == [cameras |-> <<>>]

NoDoc == [chunk |-> NoChunk, path |-> FALSE]

HasCenter(c) == c.center # None

are_cameras_aligned_all(chunk) ==
    Len(SelectSeq(chunk.cameras, HasCenter)) = Len(chunk.cameras)

are_cameras_aligned(chunk) ==
    Len(SelectSeq(chunk.cameras, HasCenter)) > 0

-----------------------------------------------------------------------------
\* Configuration and the file system
\*
\* fs[d] is the directory HomeDirectory\\d:
\*   isdir     it is a directory (not a plain file)
\*   readable  os.listdir(d) succeeds (it raises when d cannot be read)
\*   listing   the names os.listdir(d) returns, the project files aside
\*   psz       d\\<dirname>.psz exists, and holds the chunk fs[d].saved
\*   otherPsz  some other file d\\*.psz exists
\*   export    d\\Export exists
\*   fbx, jpg  d\\Export\\<dirname>.fbx and d\\Export\\<dirname>.jpg exist

PhotosDirectory == "Photos"

export_model_config == [format |-> "fbx", texture_format |-> "jpg", texture |-> TRUE]

\* str.upper, on the names that occur in the model.
upper(name) ==
    CASE name \in {"Photos", "photos", "PHOTOS"} -> "PHOTOS"
      [] name \in {"Photo", "photo"} -> "PHOTO"
      [] name \in {"Export", "EXPORT"} -> "EXPORT"
      [] name \in {"img", "IMG"} -> "IMG"
      [] OTHER -> name

is_valid_project_dir_exact(d, photos_dir) ==
    photos_dir \in fs[d].listing

is_valid_project_dir(d, photos_dir) ==
    upper(photos_dir) \in {upper(n) : n \in fs[d].listing}

\* The valid project directories among sq, in the order of sq.
RECURSIVE FilterDirs(_, _, _)
FilterDirs(sq, photos_dir, acc) ==
    IF sq = <<>> THEN acc
    ELSE FilterDirs(Tail(sq), photos_dir,
                    IF fs[Head(sq)].isdir /\ is_valid_project_dir(Head(sq), photos_dir)
                    THEN Append(acc, Head(sq)) ELSE acc)

find_project_folders(photos_dir) ==
    FilterDirs([i \in 1..NumDirs |-> i], photos_dir, <<>>)

does_project_exist(d) == fs[d].psz \/ fs[d].otherPsz

export_file_exists(d, format) ==
    IF format = "fbx" THEN fs[d].fbx ELSE fs[d].jpg

-----------------------------------------------------------------------------
\* Workflow jobs.  host is the host operation the run action invokes; the run
\* action of align_cameras_job returns the bound method chunk.alignCameras
\* without calling it, so it invokes none and its result is always true.

match_photos_job == [name |-> "Match photos", host |-> "matchPhotos"]
align_cameras_job == [name |-> "Align Cameras", host |-> None]
build_point_cloud_job == [name |-> "Build point cloud", host |-> "buildPoints"]
build_dense_cloud_job == [name |-> "Build dense cloud", host |-> "buildDenseCloud"]
build_model_job == [name |-> "Build model", host |-> "buildModel"]
build_texture_job == [name |-> "Build texture", host |-> "buildTexture"]
export_model_job == [name |-> "Export model", host |-> "exportModel"]
export_texture_job == [name |-> "Export texture", host |-> "saveTexture"]

\* The job list with "Build model" and "Build dense cloud" exchanged.
jobs_swapped == <<match_photos_job, align_cameras_job, build_point_cloud_job,
                  build_model_job, build_dense_cloud_job, build_texture_job,
                  export_model_job, export_texture_job>>

jobs == <<match_photos_job, align_cameras_job, build_point_cloud_job,
          build_dense_cloud_job, build_model_job, build_texture_job,
          export_model_job, export_texture_job>>

\* chunk.model.texture() on a chunk without a model raises AttributeError.
precond_raises(job, chunk) ==
    job.name \in {"Build texture", "Export texture"} /\ ~chunk.model

can_run(job, chunk) ==
    CASE job.name = "Match photos" -> ~are_cameras_aligned(chunk)
      [] job.name = "Align Cameras" -> ~are_cameras_aligned(chunk)
      [] job.name = "Build point cloud" -> ~chunk.point_cloud
      [] job.name = "Build dense cloud" -> ~chunk.dense_cloud
      [] job.name = "Build model" -> ~chunk.model
      [] job.name = "Build texture" -> ~chunk.texture
      [] job.name = "Export model" ->
            chunk.model
            /\ ~export_file_exists(chunk.label, export_model_config.format)
      [] job.name = "Export texture" ->
            chunk.texture
            /\ ~export_file_exists(chunk.label, export_model_config.texture_format)

\* What the run action returns, given the status of the host call it makes.
run_result(job, hostOk) ==
    IF job.host = None THEN TRUE ELSE hostOk

\* The chunk after the host operation succeeded.
host_chunk(op, chunk) ==
    CASE op = "matchPhotos" -> [chunk EXCEPT !.matched = TRUE]
      [] op = "buildPoints" -> [chunk EXCEPT !.point_cloud = TRUE]
      [] op = "buildDenseCloud" -> [chunk EXCEPT !.dense_cloud = TRUE]
      [] op = "buildModel" -> [chunk EXCEPT !.model = TRUE, !.texture = FALSE]
      [] op = "buildTexture" -> [chunk EXCEPT !.texture = TRUE]
      [] OTHER -> chunk

\* The directory after the host operation succeeded: exportModel writes the
\* model file, and with texture = True the host may write the texture beside it
\* (withTex); saveTexture writes the texture file.
host_files(op, chunk, dir, withTex) ==
    CASE op = "exportModel" ->
            [dir EXCEPT !.fbx = TRUE, !.jpg = @ \/ (withTex /\ chunk.texture)]
      [] op = "saveTexture" -> [dir EXCEPT !.jpg = TRUE]
      [] OTHER -> dir

-----------------------------------------------------------------------------
\* The script

NoCall == [op |-> None, scope |-> FALSE, wrote |-> FALSE, raised |-> FALSE]

NoResult == [d \in Dirs |-> None]
NoRan == [d \in Dirs |-> <<>>]
NoErrors == [d \in Dirs |-> {}]
NoHow == [d \in Dirs |-> [did |-> None, psz |-> FALSE, failed |-> FALSE]]

\* A fresh project directory: photos, no project file, nothing exported.
FreshDir ==
    [isdir |-> TRUE, readable |-> TRUE, listing |-> {"Photos"}, psz |-> FALSE, otherPsz |-> FALSE,
     saved |-> NoChunk, export |-> FALSE, fbx |-> FALSE, jpg |-> FALSE]

\* The chunks a project file found at the start may hold: the cameras placed or
\* not one by one, and the derived data up to some stage of the pipeline.
InitChunks ==
    {[cameras |-> cams, matched |-> lvl >= 1, point_cloud |-> lvl >= 1,
      dense_cloud |-> lvl >= 2, model |-> lvl >= 3, texture |-> lvl >= 4,
      enabled |-> en, label |-> 0] :
        cams \in CameraLists(NumCameras), lvl \in 0..4, en \in BOOLEAN}

InitDirs ==
    {FreshDir, [FreshDir EXCEPT !.otherPsz = TRUE]}
    \cup {[FreshDir EXCEPT !.psz = TRUE, !.saved = c] : c \in InitChunks}

Init ==
    /\ pc = "start"
    /\ run = 1
    /\ log_file = None
    /\ project_dirs = <<>>
    /\ cur = 0
    /\ bpc = "enter"
    /\ doc = NoDoc
    /\ jobIdx = 0
    /\ ret = TRUE
    /\ fs \in [Dirs -> InitDirs]
    /\ Cardinality({d \in Dirs : fs[d].psz}) <= MaxExisting
    /\ faults = 0
    /\ ran = NoRan
    /\ saveCalls = 0
    /\ result = NoResult
    /\ how = NoHow
    /\ errors = NoErrors
    /\ dumped = {}
    /\ prevRan = NoRan
    /\ prevResult = NoResult
    /\ fs0 = fs
    /\ out = 0
    /\ written = 0
    /\ scope = FALSE
    /\ calls = 0
    /\ lastCall = NoCall

\* Whether find_project_folders raises: is_valid_project_dir calls os.listdir
\* on every child directory, which raises on one that cannot be read.
find_raises == \E d \in Dirs : fs[d].isdir /\ ~fs[d].readable

\* open_log, the opening log lines and find_project_folders.
StartWorkflow ==
    /\ UNCHANGED logvars
    /\ pc = "start"
    /\ log_file' = "open"
    /\ IF find_raises
       THEN \* the exception of os.listdir ends the script
            /\ pc' = "aborted"
            /\ UNCHANGED <<project_dirs, cur>>
       ELSE /\ pc' = "building"
            /\ project_dirs' = find_project_folders(PhotosDirectory)
            /\ cur' = 1
    /\ bpc' = "enter"
    /\ UNCHANGED <<run, doc, jobIdx, ret, fs, faults>>
    /\ UNCHANGED hist

Building(d) ==
    /\ pc = "building"
    /\ bpc = "enter"
    /\ cur <= Len(project_dirs)
    /\ d = project_dirs[cur]

\* Number of failures among the host calls whose status is in oks.
Failed(oks) == Cardinality({i \in DOMAIN oks : ~oks[i]})

\* build up to the loop, on a directory without a project file: make_project,
\* the export directory, the chunk tests and the label.
MakeProject(d) ==
    /\ UNCHANGED logvars
    /\ Building(d)
    /\ ~does_project_exist(d)
    /\ \E addOk, saveOk \in BOOLEAN :
        /\ faults + Failed(<<addOk, saveOk>>) <= MaxFaults
        /\ faults' = faults + Failed(<<addOk, saveOk>>)
        /\ how' = [how EXCEPT ![d] = [did |-> "made", psz |-> fs[d].psz,
                                        failed |-> ~(addOk /\ saveOk)]]
        /\ IF ~addOk
           THEN \* "ERROR: ..." + photos raises TypeError: the script ends
                /\ saveOk
                /\ pc' = "aborted"
                /\ UNCHANGED <<bpc, doc, jobIdx, ret, fs, cur, errors>>
           ELSE LET chunk == NewChunk(NumCameras) IN
                /\ fs' = [fs EXCEPT ![d] =
                            [@ EXCEPT !.psz = @ \/ saveOk,
                                      !.saved = IF saveOk THEN chunk ELSE @,
                                      !.export = TRUE]]
                /\ errors' = [errors EXCEPT ![d] =
                                IF saveOk THEN @ ELSE @ \cup {"Failed to save project"}]
                /\ doc' = [chunk |-> [chunk EXCEPT !.label = d], path |-> saveOk]
                /\ ret' = TRUE
                /\ jobIdx' = 1
                /\ bpc' = "loop"
                /\ UNCHANGED <<pc, cur>>
    /\ UNCHANGED <<run, log_file, project_dirs, ran, saveCalls, result, dumped,
                   prevRan, prevResult, fs0>>

\* build's test of the chunk: "if not chunk: ... return False".
build_no_chunk_unchecked(chunk) == FALSE

build_no_chunk(chunk) == chunk = NoChunk

\* build up to the loop, on a directory with a project file: open_project, the
\* export directory, the chunk tests and the label.
OpenProject(d) ==
    /\ UNCHANGED logvars
    /\ Building(d)
    /\ does_project_exist(d)
    /\ \E openOk \in BOOLEAN :
        \* doc.open of a file that does not exist fails; of one that does, it
        \* fails when the host fails
        /\ IF fs[d].psz THEN openOk \/ faults < MaxFaults ELSE ~openOk
        /\ faults' = IF fs[d].psz /\ ~openOk THEN faults + 1 ELSE faults
        /\ how' = [how EXCEPT ![d] = [did |-> "opened", psz |-> fs[d].psz,
                                        failed |-> ~openOk]]
        /\ fs' = [fs EXCEPT ![d].export = TRUE]
        /\ LET opened == IF openOk THEN [chunk |-> fs[d].saved, path |-> TRUE]
                          ELSE NoDoc
           IN
           IF build_no_chunk(opened.chunk)
           THEN \* doc.open failed: the document has no chunk, build returns False
                /\ errors' = [errors EXCEPT ![d] =
                                @ \cup {"Cold not open document", "Chunk is None"}]
                /\ result' = [result EXCEPT ![d] = "False"]
                /\ cur' = cur + 1
                /\ UNCHANGED <<pc, doc, ret, jobIdx, bpc>>
           ELSE IF opened.chunk = NoChunk
           THEN \* chunk.enabled on None raises AttributeError: the script ends
                /\ errors' = [errors EXCEPT ![d] = @ \cup {"Cold not open document"}]
                /\ pc' = "aborted"
                /\ UNCHANGED <<doc, ret, jobIdx, bpc, cur, result>>
           ELSE /\ doc' = [opened EXCEPT !.chunk.label = d]
                /\ ret' = TRUE
                /\ jobIdx' = 1
                /\ bpc' = "loop"
                /\ UNCHANGED <<pc, cur, result, errors>>
    /\ UNCHANGED <<run, log_file, project_dirs, ran, saveCalls, dumped,
                   prevRan, prevResult, fs0>>

\* The position of the loop after a job: the next job, or past the last one
\* after the break.
build_next_nobreak(i, ok) == i + 1

build_next(i, ok) == IF ok THEN i + 1 ELSE Len(jobs) + 1

build_ret(r, ok) == IF ok THEN r ELSE FALSE

\* Whether the loop calls doc.save() after a job, by its can_run and its result.
build_saves_always(canRun, ok) == TRUE

build_saves(canRun, ok) == canRun /\ ok

\* One iteration of the loop of build.
JobStep(d) ==
    /\ UNCHANGED logvars
    /\ pc = "building"
    /\ bpc = "loop"
    /\ d = project_dirs[cur]
    /\ jobIdx <= Len(jobs)
    /\ LET job == jobs[jobIdx]
           chunk == doc.chunk
       IN
       IF precond_raises(job, chunk)
       THEN \* AttributeError: the script ends
            /\ pc' = "aborted"
            /\ UNCHANGED <<doc, jobIdx, ret, fs, faults, ran, saveCalls, errors>>
       ELSE IF ~can_run(job, chunk)
       THEN /\ jobIdx' = build_next(jobIdx, TRUE)
            /\ saveCalls' = IF build_saves(FALSE, TRUE) THEN saveCalls + 1 ELSE saveCalls
            /\ UNCHANGED <<pc, doc, ret, fs, faults, ran, errors>>
       ELSE \E hostOk, saveOk, withTex \in BOOLEAN :
            LET ok == run_result(job, hostOk)
                saves == build_saves(TRUE, ok)
                saved == saves /\ doc.path /\ saveOk
                after == IF ok THEN host_chunk(job.host, chunk) ELSE chunk
                files == IF ok THEN host_files(job.host, chunk, fs[d], withTex)
                         ELSE fs[d]
                nfail == Failed(<<job.host = None \/ hostOk, saveOk>>)
            IN
            /\ job.host = None => hostOk
            /\ (job.host # "exportModel" \/ ~chunk.texture \/ ~ok) => withTex
            /\ ~(saves /\ doc.path) => saveOk
            /\ faults + nfail <= MaxFaults
            /\ faults' = faults + nfail
            /\ doc' = [doc EXCEPT !.chunk = after]
            /\ fs' = [fs EXCEPT ![d] =
                        IF saved THEN [files EXCEPT !.saved = after] ELSE files]
            /\ ran' = [ran EXCEPT ![d] =
                        Append(@, [job |-> jobIdx, host |-> job.host,
                                   ok |-> ok, saved |-> saved])]
            /\ saveCalls' = IF saves THEN saveCalls + 1 ELSE saveCalls
            /\ errors' = [errors EXCEPT ![d] =
                            IF ok THEN @ ELSE @ \cup {"Job failed"}]
            /\ ret' = build_ret(ret, ok)
            /\ jobIdx' = build_next(jobIdx, ok)
            /\ pc' = pc
    /\ UNCHANGED <<run, log_file, project_dirs, cur, bpc, result, how, dumped,
                   prevRan, prevResult, fs0>>

\* The end of build: it returns ret, and the list comprehension moves on.
BuildReturn(d) ==
    /\ UNCHANGED logvars
    /\ pc = "building"
    /\ bpc = "loop"
    /\ d = project_dirs[cur]
    /\ jobIdx > Len(jobs)
    /\ result' = [result EXCEPT ![d] = IF ret THEN "True" ELSE "False"]
    /\ cur' = cur + 1
    /\ bpc' = "enter"
    /\ doc' = NoDoc
    /\ jobIdx' = 0
    /\ saveCalls' = 0
    /\ UNCHANGED <<pc, run, log_file, project_dirs, ret, fs, faults, ran, how,
                   errors, dumped, prevRan, prevResult, fs0>>

\* The closing log lines and close_log.
FinishWorkflow ==
    /\ UNCHANGED logvars
    /\ pc = "building"
    /\ bpc = "enter"
    /\ cur > Len(project_dirs)
    /\ pc' = "finished"
    /\ log_file' = "closed"
    /\ UNCHANGED <<run, project_dirs, cur, bpc, doc, jobIdx, ret, fs, faults>>
    /\ UNCHANGED hist

\* The PhotoScan process is killed while the script runs ("a crashed or
\* cancelled processing run"): what is in memory is lost, the files stay.
Kill ==
    /\ UNCHANGED logvars
    /\ pc = "building"
    /\ faults < MaxFaults
    /\ faults' = faults + 1
    /\ pc' = "killed"
    /\ UNCHANGED <<run, log_file, project_dirs, cur, bpc, doc, jobIdx, ret, fs>>
    /\ UNCHANGED hist

\* The script is run again on the same directories.
Rerun ==
    /\ UNCHANGED logvars
    /\ pc \in {"finished", "aborted", "killed"}
    /\ run < MaxRuns
    /\ run' = run + 1
    /\ pc' = "start"
    /\ log_file' = None
    /\ project_dirs' = <<>>
    /\ cur' = 0
    /\ bpc' = "enter"
    /\ doc' = NoDoc
    /\ jobIdx' = 0
    /\ ret' = TRUE
    /\ prevRan' = ran
    /\ prevResult' = result
    /\ fs0' = fs
    /\ ran' = NoRan
    /\ saveCalls' = 0
    /\ result' = NoResult
    /\ how' = NoHow
    /\ errors' = NoErrors
    /\ dumped' = {}
    /\ UNCHANGED <<fs, faults>>

Next ==
    \/ StartWorkflow
    \/ \E d \in Dirs : MakeProject(d)
    \/ \E d \in Dirs : OpenProject(d)
    \/ \E d \in Dirs : JobStep(d)
    \/ \E d \in Dirs : BuildReturn(d)
    \/ FinishWorkflow
    \/ Kill
    \/ Rerun

Spec == Init /\ [][Next]_vars

\* The script started on a home directory of any content: plain files, and
\* directories that can or cannot be read, with or without an entry named like
\* the photos directory, with or without a foreign project file.
Listings ==
    {{}, {"Photos"}, {"photos"}, {"PHOTOS"}, {"Photo"}, {"img", "Export"},
     {"photos", "Export"}}

HomeEntries ==
    {[FreshDir EXCEPT !.isdir = FALSE, !.listing = {}]}
    \cup {[FreshDir EXCEPT !.listing = l, !.readable = r, !.otherPsz = o] :
            l \in Listings, r \in BOOLEAN, o \in BOOLEAN}

InitDiscovery ==
    /\ pc = "start"
    /\ run = 1
    /\ log_file = None
    /\ project_dirs = <<>>
    /\ cur = 0
    /\ bpc = "enter"
    /\ doc = NoDoc
    /\ jobIdx = 0
    /\ ret = TRUE
    /\ fs \in [Dirs -> HomeEntries]
    /\ faults = 0
    /\ ran = NoRan
    /\ saveCalls = 0
    /\ result = NoResult
    /\ how = NoHow
    /\ errors = NoErrors
    /\ dumped = {}
    /\ prevRan = NoRan
    /\ prevResult = NoResult
    /\ fs0 = fs
    /\ out = 0
    /\ written = 0
    /\ scope = FALSE
    /\ calls = 0
    /\ lastCall = NoCall

SpecDiscovery == InitDiscovery /\ [][Next]_vars

-----------------------------------------------------------------------------
\* Logging: open_log, log and close_log called in any order.

script == <<pc, run, project_dirs, cur, bpc, doc, jobIdx, ret, fs, faults>>

\* "if log_file:" is true of a file object, open or closed.
log_writes(lf) == lf # None

open_log ==
    /\ calls < MaxLogCalls
    /\ calls' = calls + 1
    /\ log_file' = "open"
    /\ written' = 0
    /\ scope' = TRUE
    /\ lastCall' = [op |-> "open_log", scope |-> scope, wrote |-> FALSE,
                    raised |-> FALSE]
    /\ UNCHANGED out
    /\ UNCHANGED script
    /\ UNCHANGED hist

log ==
    /\ calls < MaxLogCalls
    /\ calls' = calls + 1
    /\ out' = out + 1
    /\ IF ~log_writes(log_file)
       THEN /\ lastCall' = [op |-> "log", scope |-> scope, wrote |-> FALSE,
                            raised |-> FALSE]
            /\ UNCHANGED written
       ELSE IF log_file = "open"
       THEN /\ written' = written + 1
            /\ lastCall' = [op |-> "log", scope |-> scope, wrote |-> TRUE,
                            raised |-> FALSE]
       ELSE \* write on a closed file raises ValueError
            /\ lastCall' = [op |-> "log", scope |-> scope, wrote |-> FALSE,
                            raised |-> TRUE]
            /\ UNCHANGED written
    /\ UNCHANGED <<log_file, scope>>
    /\ UNCHANGED script
    /\ UNCHANGED hist

close_log ==
    /\ calls < MaxLogCalls
    /\ calls' = calls + 1
    /\ IF log_file = None
       THEN \* None.close() raises AttributeError
            /\ lastCall' = [op |-> "close_log", scope |-> scope, wrote |-> FALSE,
                            raised |-> TRUE]
            /\ UNCHANGED <<log_file, scope>>
       ELSE /\ log_file' = "closed"
            /\ scope' = FALSE
            /\ lastCall' = [op |-> "close_log", scope |-> scope, wrote |-> FALSE,
                            raised |-> FALSE]
    /\ UNCHANGED <<out, written>>
    /\ UNCHANGED script
    /\ UNCHANGED hist

NextLog ==
    \/ open_log
    \/ log
    \/ close_log

\* Before the first call: log_file is None, in a home directory of fresh
\* project directories.
InitLog == Init /\ fs = [d \in Dirs |-> FreshDir]

SpecLog == InitLog /\ [][NextLog]_vars

-----------------------------------------------------------------------------
\* Properties

\* The directory build is working on, when it is inside its loop.
InLoop(d) ==
    /\ bpc = "loop"
    /\ cur \in DOMAIN project_dirs
    /\ d = project_dirs[cur]

Last(sq) == sq[Len(sq)]

OkCount(sq) == Cardinality({k \in DOMAIN sq : sq[k].ok})

AnyPlaced(chunk) == \E i \in DOMAIN chunk.cameras : chunk.cameras[i].center # None

AllPlaced(chunk) == \A i \in DOMAIN chunk.cameras : chunk.cameras[i].center # None

\* C1: fail-fast.  In the jobs run for a directory only the last one can have
\* failed; after a failure the loop is over and ret is False, and build returns
\* False.
C1_FailFast ==
    \A d \in Dirs :
        /\ \A k \in DOMAIN ran[d] : k < Len(ran[d]) => ran[d][k].ok
        /\ (\E k \in DOMAIN ran[d] : ~ran[d][k].ok) =>
              /\ InLoop(d) => (jobIdx > Len(jobs) /\ ~ret)
              /\ result[d] \in {None, "False"}
              /\ (pc = "finished" => result[d] = "False")

\* A job before the last one failed, jobs after it could have run, and build
\* has returned False.
C1_Witness ==
    \E d \in Dirs :
        /\ ran[d] # <<>>
        /\ ~Last(ran[d]).ok
        /\ Last(ran[d]).job <= 4
        /\ result[d] = "False"
        /\ ~fs[d].saved.model

\* C2: project isolation.  When the script has ended by itself, build has been
\* invoked on, and has returned for, every directory of project_dirs, whatever
\* happened to the directories before it.
C2_ProjectIsolation ==
    pc \in {"finished", "aborted"} =>
        \A k \in DOMAIN project_dirs : result[project_dirs[k]] # None

\* Whether the run before went through without any failure, build returned
\* True for d, and every job run for d succeeded and was saved.
PrevClean(d) ==
    /\ faults = 0
    /\ prevResult[d] = "True"
    /\ \A k \in DOMAIN prevRan[d] : prevRan[d][k].ok /\ prevRan[d][k].saved

\* C3: idempotence.  After a run without any failure, in which build returned
\* True for a directory and every job that ran succeeded and was saved, the
\* next run invokes no run action for it and leaves its files as they were.
C3_Idempotence ==
    \A d \in Dirs :
        (run > 1 /\ PrevClean(d)) =>
            /\ ran[d] = <<>>
            /\ (result[d] # None => fs[d] = fs0[d])

\* C4: resumability.  A run never invokes the run action of a job that ran
\* successfully, and was saved, in the run before.
C4_Resumability ==
    \A d \in Dirs :
        run > 1 =>
            \A k \in DOMAIN ran[d], j \in DOMAIN prevRan[d] :
                (prevRan[d][j].ok /\ prevRan[d][j].saved)
                    => ran[d][k].job # prevRan[d][j].job

\* C5: monotonic progress.  Right after the run action of a job returned
\* success, the precondition of that job is false.
C5_MonotonicProgress ==
    \A d \in Dirs :
        (/\ pc = "building"
         /\ InLoop(d)
         /\ ran[d] # <<>>
         /\ Last(ran[d]).ok
         /\ jobIdx = Last(ran[d]).job + 1)
            => ~can_run(jobs[Last(ran[d]).job], doc.chunk)

\* C6 as claimed: are_cameras_aligned is true exactly when every camera of the
\* chunk is placed, so that "Match photos" is skipped exactly then.
C6_AllPlaced ==
    \A d \in Dirs :
        (InLoop(d) /\ jobIdx >= 2) =>
            /\ are_cameras_aligned(doc.chunk) <=> AllPlaced(doc.chunk)
            /\ (\A k \in DOMAIN ran[d] : ran[d][k].job # 1) <=> AllPlaced(doc.chunk)

\* C6 as amended: are_cameras_aligned is true exactly when at least one camera
\* of the chunk is placed, so that "Match photos" is skipped exactly then.
C6_AnyPlaced ==
    \A d \in Dirs :
        (InLoop(d) /\ jobIdx >= 2) =>
            /\ are_cameras_aligned(doc.chunk) <=> AnyPlaced(doc.chunk)
            /\ (\A k \in DOMAIN ran[d] : ran[d][k].job # 1) <=> AnyPlaced(doc.chunk)

\* The chunk with cameras [placed, placed, not placed] was reported aligned:
\* "Match photos" and "Align Cameras" were skipped.
C6_Witness ==
    \E d \in Dirs :
        /\ InLoop(d)
        /\ jobIdx = 3
        /\ ran[d] = <<>>
        /\ Len(doc.chunk.cameras) >= 3
        /\ doc.chunk.cameras[1].center # None
        /\ doc.chunk.cameras[2].center # None
        /\ doc.chunk.cameras[3].center = None

\* C7: checkpointing.  Inside the loop of build the number of doc.save() calls
\* equals the number of jobs that ran successfully so far.
C7_Checkpointing ==
    \A d \in Dirs : InLoop(d) => saveCalls = OkCount(ran[d])

\* A build in which a job was skipped, one ran and was saved, and one failed.
C7_Witness ==
    \E d \in Dirs :
        /\ InLoop(d)
        /\ Len(ran[d]) = 2
        /\ ran[d][1].job > 1
        /\ ran[d][1].ok
        /\ ~ran[d][2].ok
        /\ saveCalls = 1

\* C8: completion reporting.  When the script has finished, dump has written
\* the report of every directory for which build returned True.
C8_CompletionDump ==
    pc = "finished" => \A d \in Dirs : result[d] = "True" => d \in dumped

\* C9: create-or-reopen.  make_or_open_project makes a new project exactly when
\* <dirname>.psz does not exist in the directory.
C9_CreateOrReopen ==
    \A d \in Dirs :
        how[d].did # None => (how[d].did = "made" <=> ~how[d].psz)

\* C10: a failure of make_project is surfaced without raising.  When addPhotos
\* or the save of the new project failed, the script does not end on an
\* exception, an error is logged and build does not return True.
C10_CreateFailureSurfaced ==
    \A d \in Dirs :
        (how[d].did = "made" /\ how[d].failed) =>
            /\ pc # "aborted"
            /\ errors[d] # {}
            /\ result[d] # "True"

\* The position of d in project_dirs, 0 when it is not there.
IndexOf(d) ==
    IF \E k \in DOMAIN project_dirs : project_dirs[k] = d
    THEN CHOOSE k \in DOMAIN project_dirs : project_dirs[k] = d
    ELSE 0

\* C11: an open failure fails the project only.  When doc.open failed for a
\* directory, the error is logged, no run action is invoked for it, build has
\* returned False and the list comprehension has moved on to the next
\* directory; the script does not end on an exception there.
C11_OpenFailure ==
    \A d \in Dirs :
        (how[d].did = "opened" /\ how[d].failed) =>
            /\ "Cold not open document" \in errors[d]
            /\ ran[d] = <<>>
            /\ result[d] = "False"
            /\ cur > IndexOf(d)
            /\ (pc = "finished" =>
                  \A k \in DOMAIN project_dirs : result[project_dirs[k]] # None)

\* The project file of a directory could not be opened, and build went through
\* the jobs of the directory after it and returned True.
C11_Witness ==
    \E d, e \in Dirs :
        /\ how[d].did = "opened"
        /\ how[d].failed
        /\ fs[d].psz
        /\ IndexOf(e) > IndexOf(d)
        /\ ran[e] # <<>>
        /\ result[e] = "True"

\* C12: the checkpoint save is checked.  When the project was made or opened
\* without failure and the save after a successful job failed, the failure is
\* logged, no later job is run for the directory and build does not return
\* True.
C12_SaveChecked ==
    \A d \in Dirs :
        \A k \in DOMAIN ran[d] :
            (~how[d].failed /\ ran[d][k].ok /\ ~ran[d][k].saved) =>
                /\ k = Len(ran[d])
                /\ "Failed to save" \in errors[d]
                /\ result[d] # "True"

\* The host operation of each stage, in the order of the pipeline.
StageOps == <<"matchPhotos", "alignCameras", "buildPoints", "buildDenseCloud",
              "buildModel", "buildTexture", "exportModel", "saveTexture">>

\* C15: every run action performs its stage.  Each job run invoked the host
\* operation of its stage.
C15_RunPerformsStage ==
    \A d \in Dirs :
        \A k \in DOMAIN ran[d] : ran[d][k].host = StageOps[ran[d][k].job]

\* The place of a host operation in the pipeline; "Align Cameras", which
\* invokes none, is second.
StageRank(op) ==
    IF op = None THEN 2 ELSE CHOOSE i \in DOMAIN StageOps : StageOps[i] = op

\* C16: fixed stage order.  The jobs run for a directory were run in the order
\* of the pipeline, each at most once, each after every job run before it had
\* succeeded, and all of them before the position of the loop.
C16_StageOrder ==
    \A d \in Dirs :
        /\ \A k \in DOMAIN ran[d] : StageRank(ran[d][k].host) = ran[d][k].job
        /\ \A j, k \in DOMAIN ran[d] :
              j < k => (ran[d][j].job < ran[d][k].job /\ ran[d][j].ok)
        /\ InLoop(d) => \A k \in DOMAIN ran[d] : ran[d][k].job < jobIdx

\* A build that skipped some jobs, ran at least three others and reached the
\* end of the job list.
C16_Witness ==
    \E d \in Dirs :
        /\ InLoop(d)
        /\ jobIdx > Len(jobs)
        /\ ret
        /\ Len(ran[d]) >= 3
        /\ Len(ran[d]) < Len(jobs)

\* C17: a disabled chunk is skipped.  For a directory whose project was opened
\* with a chunk that is not enabled, no run action is invoked.
C17_DisabledSkipped ==
    \A d \in Dirs :
        (how[d].did = "opened" /\ ~how[d].failed /\ ~fs[d].saved.enabled) =>
            ran[d] = <<>>

\* C19: every discovered project reaches a final state.  The script does not
\* end on an exception; while it builds, exactly the directories before the
\* current one have a result; when it has finished, every directory has one.
C19_EveryProjectFinal ==
    /\ pc # "aborted"
    /\ pc = "building" =>
          \A k \in DOMAIN project_dirs :
              (k < cur) <=> (result[project_dirs[k]] \in {"True", "False"})
    /\ pc = "finished" =>
          \A k \in DOMAIN project_dirs : result[project_dirs[k]] \in {"True", "False"}

\* C20: the preconditions can always be evaluated.  When the loop is at
\* "Build texture", "Export model" or "Export texture", the chunk has a model.
C20_PrecondEvaluable ==
    \A d \in Dirs :
        (InLoop(d) /\ jobIdx \in 6..8) =>
            /\ doc.chunk.model
            /\ ~precond_raises(jobs[jobIdx], doc.chunk)

\* The loop is at "Build texture" right after "Build model" ran successfully.
C20_Witness ==
    \E d \in Dirs :
        /\ pc = "building"
        /\ InLoop(d)
        /\ jobIdx = 6
        /\ ran[d] # <<>>
        /\ Last(ran[d]).job = 5
        /\ Last(ran[d]).ok

\* Names that are equal when case is ignored.
SameIgnoringCase(a, b) ==
    \/ a = b
    \/ \E class \in {{"Photos", "photos", "PHOTOS"}, {"Photo", "photo"},
                     {"Export", "EXPORT"}, {"img", "IMG"}} : {a, b} \subseteq class

\* Whether entry d of the home directory is a directory whose listing holds an
\* entry named like the photos directory, case ignored.
HoldsPhotos(d) ==
    /\ fs[d].isdir
    /\ \E n \in fs[d].listing : SameIgnoringCase(n, PhotosDirectory)

\* Whether find_project_folders has returned in this run.
Discovered == pc # "start" /\ cur > 0

\* C13: discovery.  What find_project_folders returned holds each directory
\* with a photos entry, case ignored, exactly once, and nothing else.
C13_Discovery ==
    Discovered =>
        /\ \A d \in Dirs :
              HoldsPhotos(d) <=> (\E k \in DOMAIN project_dirs : project_dirs[k] = d)
        /\ \A j, k \in DOMAIN project_dirs :
              j # k => project_dirs[j] # project_dirs[k]

\* The home directory held a plain file or a directory without photos beside a
\* directory whose photos entry is written in another case; only the latter
\* was returned.
C13_Witness ==
    /\ Discovered
    /\ Len(project_dirs) = 1
    /\ PhotosDirectory \notin fs[project_dirs[1]].listing
    /\ \E d \in Dirs : ~HoldsPhotos(d)

\* C14: an unreadable child is not fatal.  Once the script has started, every
\* directory with a photos entry that can be read has been returned by the
\* discovery, whatever the other children are.
C14_UnreadableNotFatal ==
    pc # "start" =>
        \A d \in Dirs :
            (HoldsPhotos(d) /\ fs[d].readable) =>
                /\ Discovered
                /\ \E k \in DOMAIN project_dirs : project_dirs[k] = d

\* C18: log scope.  A call of log never raises, and it appends to the log
\* file exactly when a log scope is open.
C18_LogScope ==
    lastCall.op = "log" =>
        /\ ~lastCall.raised
        /\ lastCall.wrote <=> lastCall.scope

====
